---- MODULE Spec2Model ----
(***************************************************************************)
(* Model of mranalyzer's rover segmentation (mranalyzer/seg.py):           *)
(*   crop_rover_fast  - distance-only region classifier                    *)
(*   crop_rover       - sigma-matching region classifier with a worker pool*)
(*   seg              - the orchestrator (gate, classification, output)    *)
(* and of mranalyzer/util.py: make_dir_if_not_exist, which seg calls, and  *)
(* combine_multiple_csvs_to_dataframe.                                     *)
(*                                                                         *)
(* Grids are functions over Pixels = rows x cols, 0-based (row, col).      *)
(* A boolean grid (canny) is the set of its true pixels.  Distances are    *)
(* kept squared, in integers: sqrt is monotone, so "dt <= xydist" is       *)
(* "xydist >= 0 and dt^2 <= xydist^2".                                     *)
(*                                                                         *)
(* Specifications:                                                         *)
(*   SpecFast   crop_rover_fast called with several radii on one input     *)
(*   SpecExact  crop_rover and crop_rover_fast called on the same input    *)
(*   SpecPool   crop_rover with the pool's workers interleaved, run twice  *)
(*   Spec       one run of seg                                             *)
(*   SpecLive   Spec with the run scheduled until it ends                  *)
(*   SpecCsv    one call of util.combine_multiple_csvs_to_dataframe        *)
(***************************************************************************)
EXTENDS Integers, Sequences, FiniteSets, TLC

VARIABLES
  image,      \* image / img: the grayscale image, a grid of pixel values
  canny,      \* canny / edges: the edge mask, as the set of its true pixels
  sigmaMap,   \* sigmaMap: the grid of sigma buckets
  xydist,     \* xydist / kwargs["seg_npx"]: the search radius
  fastRes,    \* crop_rover_fast's frame, per radius it was called with
  exactRes,   \* crop_rover's frame, the pool's map taken as one step
  pc,         \* where a crop_rover call with its pool unfolded stands
  edgeIdxs,   \* crop_rover: the edge coordinates, row-major
  ptVals,     \* crop_rover: the sigma value of every edge coordinate
  ptIndex,    \* crop_rover: the KDTree over edgeIdxs
  coords,     \* crop_rover: the candidate coordinates, row-major
  res,        \* pool.map's result list, one slot per candidate
  result,     \* crop_rover: the result grid
  queue,      \* pool: the next candidate to hand to a worker
  running,    \* pool: the candidates workers are checking
  returned,   \* pool: the candidates whose check has returned
  reordered,  \* pool: some check returned before an earlier candidate's
  runNo,      \* which run of crop_rover on these inputs this is
  prevResult, \* the result grid the run before returned
  kwargs,     \* seg: the command line's options
  stage,      \* seg: how far the run is
  classifier, \* seg: which region classifier the gate chose
  rover,      \* seg: the result image
  marked,     \* seg: the pixels the classifier took for rover
  fs,         \* the file system: the input file and the output directory
  fs0,        \* the file system as the run found it
  dirReady,   \* seg: make_dir_if_not_exist has returned
  error,      \* seg: the exception that ended the run, if any
  written,    \* seg: the artifact the run has saved
  log,        \* seg: the console's messages
  csvPaths,   \* combine_multiple_csvs_to_dataframe: the csv files, in order
  allData,    \* the lines read so far, one list per file
  csvFile,    \* the position of the loop over csvPaths
  csvPc,      \* where the call stands: "idle", "reading", "raised", "returned"
  dataframe   \* the dataframe the call returned

\* ---------------------------------------------------------------- bounds
Rows == 2
Cols == 2
\* largest radius (xydist / --seg_npx) tried
MaxDist == 2
\* largest number of edge pixels the edge detector returns
MaxEdges == 2
\* images are Idx(p) modulo m, m in 1..MaxPix+1
MaxPix == 4
\* sigma maps differ from bucket 1 at no more than MaxHot pixels
MaxHot == 1
\* largest --rover_npx_thresh tried
MaxThresh == 1
\* worker processes of the pool (Pool() starts one per cpu)
NumWorkers == 2

Null == "None"

\* a function that has not been called yet
NoFrame == [called |-> FALSE]

Pixels == (0 .. Rows - 1) \X (0 .. Cols - 1)

\* position of a pixel in numpy's row-major (C) order, from 1
Idx(p) == p[1] * Cols + p[2] + 1

PixelAt(i) == <<(i - 1) \div Cols, (i - 1) % Cols>>

\* every pixel, in row-major order
AllPixels == [i \in 1 .. Rows * Cols |-> PixelAt(i)]

\* the coordinates of a set of pixels, in row-major order (np.nonzero, np.where)
RowMajor(S) == SelectSeq(AllPixels, LAMBDA p : p \in S)

Radii == 0 .. MaxDist

\* sigma maps: bucket 1 everywhere but at most MaxHot pixels of bucket 2
SigmaMaps ==
  {[p \in Pixels |-> IF p \in H THEN 2 ELSE 1] :
     H \in {S \in SUBSET Pixels : Cardinality(S) <= MaxHot}}

Images == {[p \in Pixels |-> Idx(p) % m] : m \in 1 .. MaxPix + 1}

EdgeMasks == {S \in SUBSET Pixels : Cardinality(S) <= MaxEdges}

Sq(x) == x * x

Dist2(p, q) == Sq(p[1] - q[1]) + Sq(p[2] - q[2])

MinOf(S) == CHOOSE x \in S : \A y \in S : x <= y

\* scipy.ndimage.distance_transform_edt(~canny), squared: the distance of every
\* pixel to the nearest edge pixel.  With no edge pixel at all the feature
\* transform finds no background and leaves every feature at (-1, 0), so the
\* distance returned is the one to that point outside the grid.
distance_transform_edt(notCanny) ==
  LET edgePx == Pixels \ notCanny
  IN [p \in Pixels |->
        IF edgePx = {} THEN Sq(p[1] + 1) + Sq(p[2])
        ELSE MinOf({Dist2(p, e) : e \in edgePx})]

\* dt <= xydist, on the squared distance
MutLessEq(d2, dist) == dist >= 0 /\ d2 < Sq(dist)

MutLessEqFlipped(d2, dist) == dist < 0 \/ d2 >= Sq(dist)

LessEq(d2, dist) == dist >= 0 /\ d2 <= Sq(dist)

Zeros == [p \in Pixels |-> 0]

\* result[validIdxs] = image[validIdxs]
MutAssignMasked(grid, mask, img) ==
  [p \in Pixels |-> IF p \in mask THEN 1 ELSE grid[p]]

AssignMasked(grid, mask, img) == [p \in Pixels |-> IF p \in mask THEN img[p] ELSE grid[p]]

\* crop_rover_fast: validIdxs = dt <= xydist, the pixels within xydist of an edge
MutFastValidIdxs(cannyPx, dist) ==
  LET dt == distance_transform_edt(Pixels \ cannyPx)
  IN {p \in Pixels : dist >= 0 /\ dt[p] < Sq(dist)}

FastValidIdxs(cannyPx, dist) ==
  LET dt == distance_transform_edt(Pixels \ cannyPx)
  IN {p \in Pixels : LessEq(dt[p], dist)}

crop_rover_fast(img, cannyPx, dist) ==
  AssignMasked(Zeros, FastValidIdxs(cannyPx, dist), img)

\* ------------------------------------------------------------ crop_rover

\* edgeIdxs = [x for x in zip(*np.nonzero(canny))]
EdgeIdxs(cannyPx) == RowMajor(cannyPx)

\* validIdxs = np.where(dt <= xydist); coords = list(zip(*validIdxs))
Coords(cannyPx, dist) ==
  LET dt == distance_transform_edt(Pixels \ cannyPx)
  IN RowMajor({p \in Pixels : LessEq(dt[p], dist)})

\* ptVals = [sigmaMap.item(*x) for x in edgeIdxs]
MutPtVals(edges, sMap) ==
  [i \in 1 .. Len(edges) |-> sMap[edges[Len(edges) + 1 - i]]]

PtVals(edges, sMap) == [i \in 1 .. Len(edges) |-> sMap[edges[i]]]

\* spsp.KDTree(edgeIdxs): the index holds the points in the order given; it
\* cannot be built from an empty list (ValueError: the data is not 2-d).
KDTree(data) == [built |-> Len(data) > 0, data |-> data]

\* ptIndex.query_ball_point(xy, kdist): the positions, in the data, of the
\* points within distance kdist of xy
query_ball_point(index, xy, kdist) ==
  {i \in 1 .. Len(index.data) : LessEq(Dist2(index.data[i], xy), kdist)}

AbsVal(x) == IF x < 0 THEN 0 - x ELSE x

\* np.isclose(a, b, atol=0.1) with numpy's rtol=1e-05, on integers:
\* |a - b| <= atol + rtol * |b|, scaled by 100000
isclose(a, b) == 100000 * AbsVal(a - b) <= 10000 + AbsVal(b)

shares_std_val_within_dist(xy, index, vals, sMap, kdist) ==
  \E val \in query_ball_point(index, xy, kdist) : isclose(vals[val], sMap[xy])

\* for i, resVal in enumerate(res): if resVal: result[coords[i]] = image[coords[i]]
RECURSIVE ReconstructFrom(_, _, _, _, _)
ReconstructFrom(i, rs, cs, img, grid) ==
  IF i > Len(rs) THEN grid
  ELSE ReconstructFrom(i + 1, rs, cs, img,
         IF rs[i] THEN [grid EXCEPT ![cs[i]] = img[cs[i]]] ELSE grid)

MutReconstruct(rs, cs, img, grid) ==
  [p \in Pixels |-> IF \E i \in 1 .. Len(rs) : cs[i] = p THEN img[p] ELSE grid[p]]

Reconstruct(rs, cs, img, grid) == ReconstructFrom(1, rs, cs, img, grid)

\* pool.map(mapfun, coords): the i-th result is mapfun(coords[i])
PoolMap(cs, index, vals, sMap, kdist) ==
  [i \in 1 .. Len(cs) |->
     shares_std_val_within_dist(cs[i], index, vals, sMap, kdist)]

\* crop_rover with the pool's map taken as one step.  raised: the call ended
\* in an exception and returned nothing.
crop_rover(img, cannyPx, sMap, dist) ==
  LET edges == EdgeIdxs(cannyPx)
      cs == Coords(cannyPx, dist)
      vals == PtVals(edges, sMap)
      index == KDTree(edges)
      rs == PoolMap(cs, index, vals, sMap, dist)
  IN IF ~index.built
     THEN [called |-> TRUE, raised |-> TRUE, marked |-> {}, result |-> Zeros]
     ELSE [called |-> TRUE, raised |-> FALSE,
           marked |-> {cs[i] : i \in {j \in 1 .. Len(cs) : rs[j]}},
           result |-> Reconstruct(rs, cs, img, Zeros)]

\* ------------------------------------------------------------------ seg

RECURSIVE SumTo(_, _)
SumTo(i, grid) == IF i = 0 THEN 0 ELSE grid[PixelAt(i)] + SumTo(i - 1, grid)

\* grid.sum()
SumGrid(grid) == SumTo(Rows * Cols, grid)

\* np.digitize(np.abs(img - imgMean), bins) with bins = [i * img_std for i in
\* range(4)]: the number of bins that are <= |v - mean|.  With n pixels of sum
\* S and sum of squares Q, mean = S/n and std = sqrt(n*Q - S*S)/n, so
\* k*std <= |v - mean| is k*k*(n*Q - S*S) <= (n*v - S)^2.
MutDigitize(v, n, S, Q) ==
  Cardinality({k \in 0 .. 3 : Sq(k) * (n * Q - Sq(S)) < Sq(n * v - S)})

Digitize(v, n, S, Q) ==
  Cardinality({k \in 0 .. 3 : Sq(k) * (n * Q - Sq(S)) <= Sq(n * v - S)})

SigmaMapOf(img) ==
  LET n == Rows * Cols
      S == SumGrid(img)
      Q == SumGrid([p \in Pixels |-> Sq(img[p])])
  IN [p \in Pixels |-> Digitize(img[p], n, S, Q)]

\* kwargs["debug"] or edges.sum() > kwargs["rover_npx_thresh"]
GateOpen(kw, edges) == kw.debug \/ Cardinality(edges) > kw.rover_npx_thresh

\* if kwargs["match_edges"]: crop_rover, else crop_rover_fast
MutUseExact(kw) == ~kw.match_edges

UseExact(kw) == kw.match_edges

\* os.path.exists(pth), os.path.isdir(pth) of a path that is missing
\* ("absent"), a directory ("dir") or something else ("file")
Exists(pth) == pth # "absent"

IsDir(pth) == pth = "dir"

\* make_dir_if_not_exist(pth): what the path is afterwards, and whether the
\* assertion failed
MutMakeDir(pth) == [raised |-> FALSE, pth |-> "dir"]

make_dir_if_not_exist(pth) ==
  IF ~(IsDir(pth) \/ ~Exists(pth))
  THEN [raised |-> TRUE, pth |-> pth]
  ELSE [raised |-> FALSE, pth |-> IF ~Exists(pth) THEN "dir" ELSE pth]

\* rover.sum() > 0
MutHasRover(grid) == SumGrid(grid) >= 0

HasRover(grid) == SumGrid(grid) > 0

\* ------------------------------------------------- crop_rover_fast, called
\* The fast strategy applied to one image and edge mask with several radii.

poolVars ==
  <<pc, edgeIdxs, ptVals, ptIndex, coords, res, result, queue, running,
    returned, reordered, runNo, prevResult>>

segVars ==
  <<kwargs, stage, classifier, rover, marked, fs, fs0, dirReady, error, written, log>>

csvVars == <<csvPaths, allData, csvFile, csvPc, dataframe>>

fastVars ==
  <<image, canny, sigmaMap, xydist, fastRes, exactRes, poolVars, segVars, csvVars>>

vars == fastVars

SegIdle ==
  /\ kwargs = Null /\ stage = "idle" /\ classifier = "pending"
  /\ rover = Zeros /\ marked = {} /\ fs = Null /\ written = "nothing" /\ log = {}
  /\ fs0 = Null /\ dirReady = FALSE /\ error = "none"

CsvIdle ==
  /\ csvPaths = << >> /\ allData = << >> /\ csvFile = 0
  /\ csvPc = "idle" /\ dataframe = Null

PoolIdle ==
  /\ pc = "idle"
  /\ edgeIdxs = << >> /\ ptVals = << >> /\ coords = << >> /\ res = << >>
  /\ ptIndex = KDTree(<< >>)
  /\ result = Zeros /\ prevResult = Zeros
  /\ queue = 0 /\ running = {} /\ returned = {} /\ reordered = FALSE
  /\ runNo = 0

InitFast ==
  /\ image \in Images
  /\ canny \in SUBSET Pixels
  /\ sigmaMap = Null
  /\ xydist = Null
  /\ fastRes = [r \in Radii |-> NoFrame]
  /\ exactRes = NoFrame
  /\ PoolIdle
  /\ SegIdle
  /\ CsvIdle

\* res = crop_rover_fast(img, canny, xydist=r)
CallCropRoverFast(r) ==
  /\ ~fastRes[r].called
  /\ fastRes' = [fastRes EXCEPT ![r] =
        [called |-> TRUE,
         validIdxs |-> FastValidIdxs(canny, r),
         result |-> crop_rover_fast(image, canny, r)]]
  /\ UNCHANGED <<image, canny, sigmaMap, xydist, exactRes, poolVars, segVars,
                 csvVars>>

NextFast == \E r \in Radii : CallCropRoverFast(r)

SpecFast == InitFast /\ [][NextFast]_fastVars

\* the pixels within Euclidean distance r of some edge pixel
NearEdge(r) == {p \in Pixels : \E e \in canny : Dist2(p, e) <= Sq(r)}

\* C1: for every image, edge mask and radius, a pixel of the fast strategy's
\* result is the image's value if the pixel is within xydist of the nearest
\* edge pixel and 0 otherwise.
C1_FastIsNearestEdge ==
  \A r \in Radii : fastRes[r].called =>
    \A p \in Pixels :
      fastRes[r].result[p] = IF p \in NearEdge(r) THEN image[p] ELSE 0

\* For an edge mask that has an edge pixel the fast strategy marks exactly the
\* pixels within xydist of one.
FastIsNearestEdgeGivenEdges ==
  \A r \in Radii : (fastRes[r].called /\ canny # {}) =>
    /\ fastRes[r].validIdxs = NearEdge(r)
    /\ \A p \in Pixels :
         fastRes[r].result[p] = IF p \in NearEdge(r) THEN image[p] ELSE 0

\* C9: for radii r1 <= r2, every pixel the fast strategy marks with r1 it
\* also marks with r2.
C9_FastMonotoneInRadius ==
  \A r1, r2 \in Radii :
    (r1 <= r2 /\ fastRes[r1].called /\ fastRes[r2].called) =>
      /\ fastRes[r1].validIdxs \subseteq fastRes[r2].validIdxs
      /\ \A p \in Pixels : fastRes[r1].result[p] # 0 => fastRes[r2].result[p] # 0

C9_Witness ==
  \E r1, r2 \in Radii :
    /\ r1 < r2 /\ fastRes[r1].called /\ fastRes[r2].called
    /\ fastRes[r1].validIdxs # {}
    /\ fastRes[r1].validIdxs # fastRes[r2].validIdxs
    /\ fastRes[r2].validIdxs # Pixels

C11_FastLargeRadius ==
  \A r \in Radii :
    (/\ fastRes[r].called
     /\ canny # {}
     /\ \A p \in Pixels : \E e \in canny : Dist2(p, e) < Sq(r)) =>
      fastRes[r].result = image

C11_Witness ==
  \E r \in Radii :
    /\ fastRes[r].called
    /\ canny # {} /\ canny # Pixels
    /\ \A p \in Pixels : \E e \in canny : Dist2(p, e) < Sq(r)
    /\ \E p \in Pixels \ canny : image[p] > 1 /\ fastRes[r].result[p] = image[p]
    /\ \E q \in Radii : q < r /\ fastRes[q].called /\ fastRes[q].result # image

\* ------------------------------------- crop_rover and crop_rover_fast, called
\* Both strategies applied to the same image, edge mask and radius.

\* the ramp image of the tests, and one with zeros in it
RampImages == {[p \in Pixels |-> Idx(p) % m] : m \in {Rows * Cols, Rows * Cols + 1}}

InitExact ==
  /\ image \in RampImages
  /\ canny \in EdgeMasks
  /\ sigmaMap \in SigmaMaps
  /\ xydist \in Radii
  /\ fastRes = [r \in Radii |-> NoFrame]
  /\ exactRes = NoFrame
  /\ PoolIdle
  /\ SegIdle
  /\ CsvIdle

\* result = crop_rover(image, canny, sigmaMap, xydist)
CallCropRover ==
  /\ ~exactRes.called
  /\ exactRes' = crop_rover(image, canny, sigmaMap, xydist)
  /\ UNCHANGED <<image, canny, sigmaMap, xydist, fastRes, poolVars, segVars,
                 csvVars>>

NextExact == CallCropRover \/ CallCropRoverFast(xydist)

SpecExact == InitExact /\ [][NextExact]_fastVars

\* the edge pixels within xydist of p whose sigma bucket is p's
MatchingEdges(p) ==
  {e \in canny : Dist2(p, e) <= Sq(xydist) /\ sigmaMap[e] = sigmaMap[p]}

\* C2: the exact strategy marks a pixel (and copies the image there) exactly
\* when some edge pixel within xydist has the pixel's sigma value; every
\* other pixel of the whole image is 0.
C2_ExactIsSigmaMatch ==
  (exactRes.called /\ ~exactRes.raised) =>
    /\ exactRes.marked = {p \in Pixels : MatchingEdges(p) # {}}
    /\ \A p \in Pixels :
         exactRes.result[p] = IF MatchingEdges(p) # {} THEN image[p] ELSE 0

\* a pixel within xydist of an edge is left out because no edge in range has
\* its bucket, next to one that is kept
C2_Witness ==
  /\ exactRes.called /\ ~exactRes.raised
  /\ \E p \in Pixels :
       /\ \E e \in canny : Dist2(p, e) <= Sq(xydist)
       /\ MatchingEdges(p) = {}
       /\ image[p] # 0 /\ exactRes.result[p] = 0
  /\ \E p \in Pixels \ canny :
       Cardinality(canny) = 2 /\ Cardinality(MatchingEdges(p)) = 1
         /\ exactRes.result[p] # 0

\* C3: the pixels the exact strategy marks are among those the fast strategy
\* marks, for the same image, edge mask and radius.
C3_ExactWithinFast ==
  (exactRes.called /\ ~exactRes.raised /\ fastRes[xydist].called) =>
    /\ exactRes.marked \subseteq fastRes[xydist].validIdxs
    /\ \A p \in Pixels : exactRes.result[p] # 0 => fastRes[xydist].result[p] # 0

C3_Witness ==
  /\ exactRes.called /\ ~exactRes.raised /\ fastRes[xydist].called
  /\ exactRes.marked # {}
  /\ exactRes.marked # fastRes[xydist].validIdxs
  /\ fastRes[xydist].validIdxs # Pixels

\* C7: with an edge mask that has no true pixel crop_rover completes and its
\* result is all zero.
C7_ExactEmptyEdges ==
  (exactRes.called /\ canny = {}) =>
    (~exactRes.raised /\ exactRes.result = Zeros)

\* ------------------------------------------- crop_rover, its pool unfolded
\* One call of crop_rover, run twice on the same inputs: the candidates are
\* handed to the pool's workers in order, the checks return in any order.

\* sigma maps in row bands, as in the tests: bucket 2 from row k on
BandedSigmaMaps == {[p \in Pixels |-> IF p[1] >= k THEN 2 ELSE 1] : k \in 0 .. Rows}

InitPool ==
  /\ image \in RampImages
  /\ canny \in EdgeMasks
  /\ sigmaMap \in BandedSigmaMaps
  /\ xydist \in Radii
  /\ fastRes = [r \in Radii |-> NoFrame]
  /\ exactRes = NoFrame
  /\ pc = "start"
  /\ edgeIdxs = << >> /\ ptVals = << >> /\ coords = << >> /\ res = << >>
  /\ ptIndex = KDTree(<< >>)
  /\ result = Zeros /\ prevResult = Zeros
  /\ queue = 0 /\ running = {} /\ returned = {} /\ reordered = FALSE
  /\ runNo = 1
  /\ SegIdle
  /\ CsvIdle

inputVars == <<image, canny, sigmaMap, xydist, fastRes, exactRes, segVars, csvVars>>

\* crop_rover up to the pool: the index, the candidates, the empty result grid
CropRoverSetup ==
  /\ pc = "start"
  /\ edgeIdxs' = EdgeIdxs(canny)
  /\ result' = Zeros
  /\ ptVals' = PtVals(edgeIdxs', sigmaMap)
  /\ ptIndex' = KDTree(edgeIdxs')
  /\ IF ptIndex'.built
     THEN /\ coords' = Coords(canny, xydist)
          /\ res' = [i \in 1 .. Len(coords') |-> FALSE]
          /\ queue' = 1
          /\ pc' = "pool"
     ELSE /\ pc' = "raised"
          /\ UNCHANGED <<coords, res, queue>>
  /\ UNCHANGED <<running, returned, reordered, runNo, prevResult, inputVars>>

\* a free worker takes the next candidate
WorkerTakes ==
  /\ pc = "pool"
  /\ queue <= Len(coords)
  /\ Cardinality(running) < NumWorkers
  /\ running' = running \cup {queue}
  /\ queue' = queue + 1
  /\ UNCHANGED <<pc, edgeIdxs, ptVals, ptIndex, coords, res, result, returned,
                 reordered, runNo, prevResult, inputVars>>

\* the pool puts the k-th check to return, candidate i's, into the result list
MutStoreResult(list, i, k, val) == [list EXCEPT ![k] = val]

StoreResult(list, i, k, val) == [list EXCEPT ![i] = val]

\* a worker's check of candidate i returns
WorkerReturns(i) ==
  /\ pc = "pool"
  /\ i \in running
  /\ res' = StoreResult(res, i, Cardinality(returned) + 1,
               shares_std_val_within_dist(coords[i], ptIndex, ptVals, sigmaMap, xydist))
  /\ running' = running \ {i}
  /\ returned' = returned \cup {i}
  /\ reordered' = (reordered \/ \E j \in running : j < i)
  /\ UNCHANGED <<pc, edgeIdxs, ptVals, ptIndex, coords, result, queue, runNo,
                 prevResult, inputVars>>

\* pool.map returns once every check has; the result grid is rebuilt from the
\* list and returned
PoolJoined ==
  /\ pc = "pool"
  /\ queue > Len(coords)
  /\ running = {}
  /\ result' = Reconstruct(res, coords, image, result)
  /\ pc' = "done"
  /\ UNCHANGED <<edgeIdxs, ptVals, ptIndex, coords, res, queue, running, returned,
                 reordered, runNo, prevResult, inputVars>>

\* crop_rover is called again with the same arguments
CallAgain ==
  /\ pc = "done"
  /\ runNo = 1
  /\ runNo' = 2
  /\ prevResult' = result
  /\ pc' = "start"
  /\ edgeIdxs' = << >> /\ ptVals' = << >> /\ coords' = << >> /\ res' = << >>
  /\ ptIndex' = KDTree(<< >>)
  /\ result' = Zeros
  /\ queue' = 0 /\ running' = {} /\ returned' = {} /\ reordered' = FALSE
  /\ UNCHANGED inputVars

NextPool ==
  \/ CropRoverSetup
  \/ WorkerTakes
  \/ \E i \in 1 .. Rows * Cols : WorkerReturns(i)
  \/ PoolJoined
  \/ CallAgain

SpecPool == InitPool /\ [][NextPool]_fastVars

\* C8: while checks are out the result grid is untouched; the grid returned
\* pairs the i-th result with the i-th candidate whatever order the checks
\* returned in, so it is the same under every schedule and the same again
\* when the call is repeated.
C8_PoolDeterministic ==
  /\ pc = "pool" => result = Zeros
  /\ pc = "done" =>
       /\ \A i \in 1 .. Len(coords) :
            res[i] = shares_std_val_within_dist(coords[i], ptIndex, ptVals, sigmaMap, xydist)
       /\ \A p \in Pixels :
            result[p] = IF \E i \in 1 .. Len(coords) : coords[i] = p /\ res[i]
                        THEN image[p] ELSE 0
       /\ result = crop_rover(image, canny, sigmaMap, xydist).result
       /\ runNo = 2 => result = prevResult

\* the second run has returned, its checks came back out of order, and some
\* candidates were kept and some dropped
C8_Witness ==
  /\ pc = "done" /\ runNo = 2 /\ reordered
  /\ \E i, j \in 1 .. Len(coords) : res[i] /\ ~res[j]
  /\ result # Zeros

\* ------------------------------------------------------------- seg, run
\* One run of `mra seg`: load, sigma map and edges, gate, classification,
\* output directory, output.

Kwargs ==
  [debug : BOOLEAN, match_edges : BOOLEAN, seg_npx : Radii,
   rover_npx_thresh : 0 .. MaxThresh]

\* the input image is there or not; the output file's directory is missing, a
\* directory, or a path that is no directory
FileSystems == [input : BOOLEAN, outdir : {"absent", "dir", "file"}]

Init ==
  /\ kwargs \in Kwargs
  /\ fs \in FileSystems
  /\ fs0 = fs
  /\ dirReady = FALSE
  /\ error = "none"
  /\ stage = "start"
  /\ classifier = "pending"
  /\ image = Zeros /\ sigmaMap = Zeros /\ canny = {}
  /\ rover = Zeros /\ marked = {}
  /\ written = "nothing" /\ log = {}
  /\ xydist = Null
  /\ fastRes = [r \in Radii |-> NoFrame]
  /\ exactRes = NoFrame
  /\ PoolIdle
  /\ CsvIdle

otherVars == <<xydist, fastRes, exactRes, poolVars, csvVars>>

\* img = mpimg.imread(kwargs["input_image"]), gray
LoadImage ==
  /\ stage = "start"
  /\ fs.input
  /\ \E img \in Images : image' = img
  /\ stage' = "Loaded"
  /\ UNCHANGED <<sigmaMap, canny, kwargs, classifier, rover, marked, fs, fs0,
                 dirReady, error, written, log, otherVars>>

\* imread raises: there is no such file
LoadFails ==
  /\ stage = "start"
  /\ ~fs.input
  /\ stage' = "failed"
  /\ error' = "FileNotFoundError"
  /\ UNCHANGED <<image, sigmaMap, canny, kwargs, classifier, rover, marked, fs,
                 fs0, dirReady, written, log, otherVars>>

\* the sigma map, and the edges feature.canny finds
ComputeEdges ==
  /\ stage = "Loaded"
  /\ sigmaMap' = SigmaMapOf(image)
  /\ canny' \in EdgeMasks
  /\ stage' = "EdgesComputed"
  /\ UNCHANGED <<image, kwargs, classifier, rover, marked, fs, fs0, dirReady,
                 error, written, log, otherVars>>

\* the gate is shut: rover = np.zeros_like(img)
SkipClassifier ==
  /\ stage = "EdgesComputed"
  /\ ~GateOpen(kwargs, canny)
  /\ classifier' = "skipped"
  /\ rover' = Zeros
  /\ marked' = {}
  /\ stage' = "Empty"
  /\ UNCHANGED <<image, sigmaMap, canny, kwargs, fs, fs0, dirReady, error, written,
                 log, otherVars>>

\* rover = crop_rover(img, edges, sigmaMap, kwargs["seg_npx"])
SegCropRover ==
  /\ stage = "EdgesComputed"
  /\ GateOpen(kwargs, canny)
  /\ UseExact(kwargs)
  /\ classifier' = "crop_rover"
  /\ LET frame == crop_rover(image, canny, sigmaMap, kwargs.seg_npx)
     IN IF frame.raised
        THEN /\ stage' = "failed"
             /\ error' = "ValueError"
             /\ UNCHANGED <<rover, marked>>
        ELSE /\ rover' = frame.result
             /\ marked' = frame.marked
             /\ stage' = "Segmented"
             /\ UNCHANGED error
  /\ UNCHANGED <<image, sigmaMap, canny, kwargs, fs, fs0, dirReady, written, log,
                 otherVars>>

\* rover = crop_rover_fast(img, edges, kwargs["seg_npx"])
SegCropRoverFast ==
  /\ stage = "EdgesComputed"
  /\ GateOpen(kwargs, canny)
  /\ ~UseExact(kwargs)
  /\ classifier' = "crop_rover_fast"
  /\ rover' = crop_rover_fast(image, canny, kwargs.seg_npx)
  /\ marked' = FastValidIdxs(canny, kwargs.seg_npx)
  /\ stage' = "Segmented"
  /\ UNCHANGED <<image, sigmaMap, canny, kwargs, fs, fs0, dirReady, error, written,
                 log, otherVars>>

\* make_dir_if_not_exist(os.path.dirname(kwargs["output_img"]))
MakeDirIfNotExist ==
  /\ stage \in {"Empty", "Segmented"}
  /\ ~dirReady
  /\ LET made == make_dir_if_not_exist(fs.outdir)
     IN /\ fs' = [fs EXCEPT !.outdir = made.pth]
        /\ IF made.raised
           THEN stage' = "failed" /\ error' = "AssertionError" /\ UNCHANGED dirReady
           ELSE dirReady' = TRUE /\ UNCHANGED <<stage, error>>
  /\ UNCHANGED <<image, sigmaMap, canny, kwargs, classifier, rover, marked, fs0,
                 written, log, otherVars>>

\* the panel in debug mode; else the rover image, or "Rover not found"
WriteOutput ==
  /\ stage \in {"Empty", "Segmented"}
  /\ dirReady
  /\ IF kwargs.debug
     THEN written' = "panel" /\ UNCHANGED log
     ELSE IF HasRover(rover)
          THEN written' = "image" /\ UNCHANGED log
          ELSE log' = log \cup {"Rover not found in image."} /\ UNCHANGED written
  /\ stage' = "Written"
  /\ UNCHANGED <<image, sigmaMap, canny, kwargs, classifier, rover, marked, fs,
                 fs0, dirReady, error, otherVars>>

\* plt.savefig or plt.imsave raises (the writer cannot save to the path)
WriteFails ==
  /\ stage \in {"Empty", "Segmented"}
  /\ dirReady
  /\ kwargs.debug \/ HasRover(rover)
  /\ stage' = "failed"
  /\ error' = "WriteError"
  /\ UNCHANGED <<image, sigmaMap, canny, kwargs, classifier, rover, marked, fs,
                 fs0, dirReady, written, log, otherVars>>

Next ==
  \/ LoadImage
  \/ LoadFails
  \/ ComputeEdges
  \/ SkipClassifier
  \/ SegCropRover
  \/ SegCropRoverFast
  \/ MakeDirIfNotExist
  \/ WriteOutput
  \/ WriteFails

Spec == Init /\ [][Next]_vars

HasResult == stage \in {"Empty", "Segmented", "Written"}

\* C4: wherever a result image is produced (fast, exact, or the gate's empty
\* image), a pixel not taken for rover is exactly 0 and a pixel taken for
\* rover has the image's value.
C4_ZeroSentinel ==
  HasResult =>
    \A p \in Pixels : rover[p] = IF p \in marked THEN image[p] ELSE 0

C4_Witness ==
  /\ stage = "Written" /\ kwargs.match_edges
  /\ \E p \in marked : rover[p] # 0
  /\ \E p \in Pixels \ marked : image[p] # 0 /\ rover[p] = 0

\* C5: the classifier is skipped, and the result all zero, exactly when the
\* run is not in debug mode and the edge-pixel count is below
\* rover_npx_thresh; in debug mode, or with a count of at least the
\* threshold, the classifier is invoked.
C5_GateBelowThreshold ==
  classifier # "pending" =>
    ((classifier = "skipped" /\ rover = Zeros)
       <=> (~kwargs.debug /\ Cardinality(canny) < kwargs.rover_npx_thresh))

\* what the gate does: it is shut when the count is at most the threshold
GateAtMostThreshold ==
  classifier # "pending" =>
    ((classifier = "skipped" /\ rover = Zeros)
       <=> (~kwargs.debug /\ Cardinality(canny) <= kwargs.rover_npx_thresh))

\* C6: a finished run outside debug mode has written the image file exactly
\* when the result is not all zero, and has reported "rover not found" and
\* written nothing when it is; a finished run in debug mode has written the
\* panel, whether or not the result is empty.
C6_OutputRule ==
  stage = "Written" =>
    IF kwargs.debug
    THEN written = "panel"
    ELSE /\ written = "image" <=> rover # Zeros
         /\ rover = Zeros =>
              (written = "nothing" /\ "Rover not found in image." \in log)
         /\ rover # Zeros => "Rover not found in image." \notin log

C6_Witness ==
  /\ stage = "Written" /\ ~kwargs.debug
  /\ classifier # "skipped" /\ canny # {} /\ marked # {}
  /\ rover = Zeros
  /\ written = "nothing" /\ "Rover not found in image." \in log


\* the sigma map of the run has been computed
SigmaComputed == stage \in {"EdgesComputed", "Empty", "Segmented", "Written"}

\* (n * |v - mean|) squared and (n * std) squared, for the n pixels of the image
Dev2(v) == Sq(Rows * Cols * v - SumGrid(image))

Std2 == Rows * Cols * SumGrid([p \in Pixels |-> Sq(image[p])]) - Sq(SumGrid(image))

\* bucket k: edges[k-1] <= |v - mean| < edges[k], for the edges 0, s, 2s, 3s,
\* given d2 = Dev2(v) and s2 = Std2
InBucket(d2, s2, k) ==
  /\ k \in 1 .. 3
  /\ Sq(k - 1) * s2 <= d2
  /\ d2 < Sq(k) * s2

\* every pixel's sigma map value is its bucket, or top when it is past 3s
BucketsWithTop(top) ==
  LET s2 == Std2
      d2 == [v \in {image[p] : p \in Pixels} |-> Dev2(v)]
  IN \A p \in Pixels :
       \/ InBucket(d2[image[p]], s2, sigmaMap[p])
       \/ sigmaMap[p] = top /\ d2[image[p]] >= Sq(3) * s2

\* C15 as stated: every sigma map value is the left-closed bucket of
\* |pixel - mean| over the edges 0, s, 2s, 3s, values past the last edge
\* clamped to the extreme bucket, and lies in {0, 1, 2, 3}.
C15_SigmaClamped ==
  SigmaComputed =>
    /\ \A p \in Pixels : sigmaMap[p] \in 0 .. 3
    /\ BucketsWithTop(3)

\* C15, amended: every sigma map value is the left-closed bucket of
\* |pixel - mean| over the edges 0, s, 2s, 3s, a value at or past the last
\* edge gets 4 (nothing is clamped), and every value lies in {1, 2, 3, 4}.
C15_SigmaBuckets ==
  SigmaComputed =>
    /\ \A p \in Pixels : sigmaMap[p] \in 1 .. 4
    /\ BucketsWithTop(4)

C15_Witness ==
  /\ SigmaComputed
  /\ \E p, q \in Pixels :
       /\ sigmaMap[p] = 1 /\ sigmaMap[q] = 2
       /\ InBucket(Dev2(image[p]), Std2, 1) /\ InBucket(Dev2(image[q]), Std2, 2)

\* make_dir_if_not_exist has been called in this run
MakeDirCalled == dirReady \/ error = "AssertionError"

C13_AllOrNothing ==
  stage = "failed" => (written = "nothing" /\ fs = fs0)

\* seg is sequential code and each of its steps returns or raises: a run
\* that can take a step takes it.
SpecLive == Spec /\ WF_vars(Next)

\* the stage changes of a run that has not failed
StageOrder ==
  {<<"start", "Loaded">>, <<"Loaded", "EdgesComputed">>,
   <<"EdgesComputed", "Empty">>, <<"EdgesComputed", "Segmented">>,
   <<"Empty", "Written">>, <<"Segmented", "Written">>}

\* a step that invokes a region classifier
Invokes == classifier' # classifier /\ classifier' \in {"crop_rover", "crop_rover_fast"}

\* C16: a run passes through Loaded, EdgesComputed, one of Empty and
\* Segmented, then Written, in this order and each once, unless it fails; a
\* region classifier is invoked at most once, after the sigma map and the edge
\* mask are computed, crop_rover iff match_edges is set and crop_rover_fast
\* otherwise; nothing is written before the gate and the classification are
\* done; and every run ends, written or failed.
C16_Ordering ==
  /\ [][stage' # stage => (stage' = "failed" \/ <<stage, stage'>> \in StageOrder)]_vars
  /\ [][Invokes =>
         /\ classifier = "pending"
         /\ stage = "EdgesComputed"
         /\ classifier' = "crop_rover" <=> kwargs.match_edges]_vars
  /\ [][classifier # "pending" => classifier' = classifier]_vars
  /\ [][(written' # written \/ fs' # fs \/ log' # log) =>
         (stage \in {"Empty", "Segmented"} /\ classifier # "pending")]_vars
  /\ <>(stage \in {"Written", "failed"})

C16_Witness ==
  /\ stage = "Written"
  /\ kwargs.match_edges
  /\ classifier = "crop_rover"
  /\ written = "image"

\* ---------------------------------- util.combine_multiple_csvs_to_dataframe
\* A csv file is the list of its lines, a line is its fields and its line
\* end.  The field k of line l of file f is <<f, l, k>>, so a cell of the
\* dataframe tells where it came from.

MaxFiles == 2
MaxLines == 2
MaxFields == 2

\* a missing value: the cell of no file
NaN == <<0, 0, 0>>

\* the files of a call, by the number of fields of each line
LineWidths == UNION {[1 .. n -> 1 .. MaxFields] : n \in 0 .. MaxLines}

CsvShapes == UNION {[1 .. k -> LineWidths] : k \in 1 .. MaxFiles}

CsvLine(f, l, w) == [fields |-> [k \in 1 .. w |-> <<f, l, k>>], eol |-> "\n"]

CsvFiles(shape) ==
  [f \in 1 .. Len(shape) |-> [l \in 1 .. Len(shape[f]) |-> CsvLine(f, l, shape[f][l])]]

\* fields.strip(): the line without its line end
Strip(line) == line.fields

\* sep.join(parts): the fields of the parts, one after the other
RECURSIVE Join(_)
Join(parts) ==
  IF parts = << >> THEN << >> ELSE Head(parts) \o Join(Tail(parts))

\* zip(*allData): the tuples of the lines with the same line number, up to the
\* shortest file
Zip(all) ==
  IF all = << >> THEN << >>
  ELSE LET n == MinOf({Len(all[f]) : f \in 1 .. Len(all)})
       IN [l \in 1 .. n |-> [f \in 1 .. Len(all) |-> all[f][l]]]

\* combinedDataText: one text line per line number
CombinedDataText(all) ==
  LET zipped == Zip(all)
  IN [l \in 1 .. Len(zipped) |->
        Join([f \in 1 .. Len(zipped[l]) |-> Strip(zipped[l][f])])]

\* pd.read_csv(text, on_bad_lines="warn"): the first line names the columns; a
\* line with more fields than columns is skipped with a warning, one with
\* fewer is filled with NaN
read_csv(text) ==
  LET columns == Head(text)
      width == Len(columns)
      good == SelectSeq(Tail(text), LAMBDA row : Len(row) <= width)
  IN [columns |-> columns,
      rows |-> [i \in 1 .. Len(good) |->
                  [j \in 1 .. width |-> IF j <= Len(good[i]) THEN good[i][j] ELSE NaN]]]

\* if len(allData) > 0 and lenData != len(allData[0])
MutLengthDiffers(all, data) == FALSE

LengthDiffers(all, data) == Len(all) > 0 /\ Len(data) # Len(all[1])

segCallVars ==
  <<image, canny, sigmaMap, xydist, fastRes, exactRes, poolVars, segVars>>

InitCsv ==
  /\ \E shape \in CsvShapes : csvPaths = CsvFiles(shape)
  /\ allData = << >>
  /\ csvFile = 1
  /\ csvPc = "reading"
  /\ dataframe = Null
  /\ image = Zeros /\ sigmaMap = Zeros /\ canny = {}
  /\ xydist = Null
  /\ fastRes = [r \in Radii |-> NoFrame]
  /\ exactRes = NoFrame
  /\ PoolIdle
  /\ SegIdle

\* one pass of the loop: read the file, check its length, append it
ReadCsv ==
  /\ csvPc = "reading"
  /\ csvFile <= Len(csvPaths)
  /\ LET data == csvPaths[csvFile]
     IN IF Len(data) = 0 \/ LengthDiffers(allData, data)
        THEN csvPc' = "raised" /\ UNCHANGED <<allData, csvFile>>
        ELSE /\ allData' = Append(allData, data)
             /\ csvFile' = csvFile + 1
             /\ UNCHANGED csvPc
  /\ UNCHANGED <<csvPaths, dataframe, segCallVars>>

\* after the loop: join the lines by line number and parse the text
CombineAndParse ==
  /\ csvPc = "reading"
  /\ csvFile > Len(csvPaths)
  /\ dataframe' = read_csv(CombinedDataText(allData))
  /\ csvPc' = "returned"
  /\ UNCHANGED <<csvPaths, allData, csvFile, segCallVars>>

NextCsv == ReadCsv \/ CombineAndParse

SpecCsv == InitCsv /\ [][NextCsv]_vars

\* number of fields of line l over all files
FieldsAt(l) ==
  Cardinality({<<f, k>> \in (1 .. Len(csvPaths)) \X (1 .. MaxFields) :
                 k <= Len(csvPaths[f][l].fields)})

\* the line number a row of the dataframe is made of, 0 when it has none
Cells(row) == {row[j] : j \in 1 .. Len(row)} \ {NaN}

\* a file is empty or has another number of lines than the first
BadCsvInput ==
  \E f \in 1 .. Len(csvPaths) :
    Len(csvPaths[f]) = 0 \/ Len(csvPaths[f]) # Len(csvPaths[1])

\* the cell comes before the other in input-file order
Before(x, y) == x[1] < y[1] \/ (x[1] = y[1] /\ x[3] < y[3])

==============================================================================
